---- MODULE Spec2Model ----
(***************************************************************************)
(* State-machine model of the catalog backend (src/main.py, src/schemas.py) *)
(* over a document store with three collections: user, movie, listitem.    *)
(*                                                                         *)
(* Every store call (find_one, insert, update_one, count_documents, find)  *)
(* is one atomic step; a handler is the sequence of its store calls, with  *)
(* the handler's position kept in pc and its Python locals in local.       *)
(* Spec, AuthSpec and CatalogSpec run one client (calls never overlap);    *)
(* ConcSpec runs two clients whose store steps interleave.                 *)
(*                                                                         *)
(* Python values whose type matters are tagged: None is [py_none |-> TRUE],*)
(* an ObjectId is [oid |-> n], an identifier string is [str |-> chars], an *)
(* optional bool is [bool |-> b].  Character strings that the code parses  *)
(* or converts (emails, tokens, hex identifiers) are sequences of          *)
(* one-character strings; the other texts are TLA+ strings.  Free-text     *)
(* fields without logic (description, the two urls, the timestamps) are    *)
(* left out of the documents.                                              *)
(***************************************************************************)
EXTENDS Integers, Sequences, FiniteSets, TLC

VARIABLES users, movies, listitems, pc, local, resp, hist

vars == <<users, movies, listitems, pc, local, resp, hist>>

(***************************************************************************)
(* Bounds of the model.                                                    *)
(***************************************************************************)
MaxUsers == 2
MaxMovies == 2
MaxItems == 2

(***************************************************************************)
(* Python values.                                                          *)
(***************************************************************************)
None == [py_none |-> TRUE]

IsNone(v) == "py_none" \in DOMAIN v

PyStr(s) == [str |-> s]

PyBool(b) == [bool |-> b]

Min(S) == CHOOSE x \in S : \A y \in S : x <= y

Max(S) == CHOOSE x \in S : \A y \in S : x >= y

(***************************************************************************)
(* bson.ObjectId: a 12-byte value written as 24 lowercase hex digits.      *)
(***************************************************************************)
OidHexLen == 24

HexDigits == <<"0", "1", "2", "3", "4", "5", "6", "7",
               "8", "9", "a", "b", "c", "d", "e", "f">>

\* 16^k for the low positions; identifiers of the model stay below 16^6.
Pow16(k) == CASE k = 0 -> 1 [] k = 1 -> 16 [] k = 2 -> 256
              [] k = 3 -> 4096 [] k = 4 -> 65536 [] OTHER -> 1048576

\* str(ObjectId): the 24 hex digits of the value, most significant first.
HexOf(n) ==
  [i \in 1..OidHexLen |->
     LET k == OidHexLen - i
     IN  IF k > 5 THEN "0" ELSE HexDigits[((n \div Pow16(k)) % 16) + 1]]

StrOid(o) == PyStr(HexOf(o.oid))

DigitVal(c) == CHOOSE d \in 0..15 : HexDigits[d + 1] = c

IsHexDigit(c) == \E d \in 1..16 : HexDigits[d] = c

RECURSIVE HexVal(_)
HexVal(s) ==
  IF s = <<>> THEN 0
  ELSE HexVal(SubSeq(s, 1, Len(s) - 1)) * 16 + DigitVal(s[Len(s)])

\* ObjectId(s) raises InvalidId unless s is 24 hex digits.
ValidOid(s) ==
  /\ Len(s.str) = OidHexLen
  /\ \A i \in 1..Len(s.str) : IsHexDigit(s.str[i])

ParseOid(s) == [oid |-> HexVal(s.str)]

\* The store assigns each inserted document a fresh identifier; the model
\* numbers them per collection, in disjoint ranges.
CollBase(coll) ==
  CASE coll = "user" -> 256 [] coll = "movie" -> 512 [] OTHER -> 768

NewOid(coll, n) == [oid |-> CollBase(coll) + n + 1]

(***************************************************************************)
(* pydantic EmailStr: the address is validated and returned normalised,    *)
(* the part after the last "@" in lower case.  <<>> stands for a           *)
(* ValidationError.                                                        *)
(***************************************************************************)
Uppers == <<"A", "B", "C", "D", "E", "F", "G", "H", "I", "J", "K", "L", "M",
            "N", "O", "P", "Q", "R", "S", "T", "U", "V", "W", "X", "Y", "Z">>

Lowers == <<"a", "b", "c", "d", "e", "f", "g", "h", "i", "j", "k", "l", "m",
            "n", "o", "p", "q", "r", "s", "t", "u", "v", "w", "x", "y", "z">>

LowerChar(c) ==
  IF \E i \in 1..Len(Uppers) : Uppers[i] = c
  THEN Lowers[CHOOSE i \in 1..Len(Uppers) : Uppers[i] = c]
  ELSE c

LowerStr(s) == [i \in 1..Len(s) |-> LowerChar(s[i])]

LastAt(s) ==
  LET at == {i \in 1..Len(s) : s[i] = "@"}
  IN  IF at = {} THEN 0 ELSE Max(at)

InvalidEmail == <<>>

EmailStr(s) ==
  LET k == LastAt(s)
      localPart == SubSeq(s, 1, k - 1)
      domainPart == SubSeq(s, k + 1, Len(s))
  IN  IF \/ k = 0
         \/ localPart = <<>>
         \/ domainPart = <<>>
         \/ ~(\E i \in 1..Len(domainPart) : domainPart[i] = ".")
         \/ domainPart[1] = "."
         \/ domainPart[Len(domainPart)] = "."
      THEN InvalidEmail
      ELSE localPart \o <<"@">> \o LowerStr(domainPart)

(***************************************************************************)
(* The document store.  A collection is the sequence of its documents in   *)
(* insertion order, which is the order find and find_one return them in.   *)
(***************************************************************************)
\* find_one: the first of the documents of coll at the matching places hits.
FindOne(coll, hits) == IF hits = {} THEN None ELSE coll[Min(hits)]

\* find: the documents of coll at the matching places hits, in store order.
RECURSIVE Find(_, _)
Find(coll, hits) ==
  IF hits = {} THEN <<>>
  ELSE Append(Find(coll, hits \ {Max(hits)}), coll[Max(hits)])

Contains(list, x) == \E i \in 1..Len(list) : list[i] = x

\* create_document(collection, model): insert the model's fields under a
\* fresh _id and return the identifier as a string.
CreateDocument(coll, name, fields) ==
  LET id == NewOid(name, Len(coll))
  IN  [docs |-> Append(coll, [k \in DOMAIN fields \cup {"_id"} |->
                                 IF k = "_id" THEN id ELSE fields[k]]),
       id   |-> StrOid(id)]

\* update_one({"_id": oid}, {"$push": {"tokens": token}})
UpdatePush(coll, oid, token) ==
  [i \in 1..Len(coll) |->
     IF coll[i]._id = oid
     THEN [coll[i] EXCEPT !.tokens = Append(@, token)]
     ELSE coll[i]]

\* update_one({"_id": oid}, {"$addToSet": {"tokens": token}})
UpdateAddToSet(coll, oid, token) ==
  [i \in 1..Len(coll) |->
     IF coll[i]._id = oid /\ ~Contains(coll[i].tokens, token)
     THEN [coll[i] EXCEPT !.tokens = Append(@, token)]
     ELSE coll[i]]

(***************************************************************************)
(* to_str_id: the document with "_id" replaced by "id" = str(_id).         *)
(***************************************************************************)
\* A mutant of to_str_id: the identifier is renamed but not converted.
to_str_id_raw(doc) ==
  IF IsNone(doc) THEN doc
  ELSE IF "_id" \in DOMAIN doc
  THEN [k \in (DOMAIN doc \ {"_id"}) \cup {"id"} |->
          IF k = "id" THEN doc._id ELSE doc[k]]
  ELSE doc

to_str_id(doc) ==
  IF IsNone(doc) THEN doc
  ELSE IF "_id" \in DOMAIN doc
  THEN [k \in (DOMAIN doc \ {"_id"}) \cup {"id"} |->
          IF k = "id" THEN StrOid(doc._id) ELSE doc[k]]
  ELSE doc

(***************************************************************************)
(* Clients.  pc[p] is the store call that client p's handler makes next    *)
(* ("idle" between calls), local[p] the handler's request and locals,      *)
(* resp[p] the response of its last finished call.                         *)
(***************************************************************************)
LocalInit ==
  [op |-> "", name |-> "", email |-> <<>>, password |-> "", token |-> <<>>,
   movie_id |-> PyStr(<<>>), movie |-> None, genre |-> None, featured |-> None,
   user |-> None, new_id |-> None, idx |-> 0, inserted |-> 0, items |-> <<>>,
   nseen |-> 0]

\* History kept for the properties, never read by a handler: how many movies
\* the seed loop and create_movie have inserted, how many the seed call that
\* failed had inserted, and for each user and list item how many documents
\* the collection held when the inserting call made its existence check.
HistInit ==
  [seedIns |-> 0, failK |-> 0, created |-> 0, regSeen |-> <<>>,
   addSeen |-> <<>>]

InitFor(Procs) ==
  /\ users = <<>>
  /\ movies = <<>>
  /\ listitems = <<>>
  /\ pc = [p \in Procs |-> "idle"]
  /\ local = [p \in Procs |-> LocalInit]
  /\ resp = [p \in Procs |-> None]
  /\ hist = HistInit

Response(status, body) == [status |-> status, body |-> body]

Detail(text) == [detail |-> text]

\* The handler of client p finishes with response r.
Finish(p, r) ==
  /\ pc' = [pc EXCEPT ![p] = "idle"]
  /\ resp' = [resp EXCEPT ![p] = r]

\* The handler of client p goes on to store call next with locals loc.
Goto(p, next, loc) ==
  /\ pc' = [pc EXCEPT ![p] = next]
  /\ local' = [local EXCEPT ![p] = loc]
  /\ UNCHANGED resp

\* Client p sends a request: the handler starts at its first store call.
Call(p, first, loc) ==
  /\ pc[p] = "idle"
  /\ pc' = [pc EXCEPT ![p] = first]
  /\ local' = [local EXCEPT ![p] = loc]
  /\ resp' = [resp EXCEPT ![p] = None]
  /\ UNCHANGED <<users, movies, listitems, hist>>

InFlight(labels) == Cardinality({q \in DOMAIN pc : pc[q] \in labels})

(***************************************************************************)
(* POST /api/auth/register                                                 *)
(***************************************************************************)
CallRegister(p, emails, passwords) ==
  /\ Len(users) + InFlight({"reg_check", "reg_insert"}) < MaxUsers
  /\ \E e \in emails, pw \in passwords :
       Call(p, "reg_check",
            [LocalInit EXCEPT !.op = "register", !.name = "Ann",
                              !.email = e, !.password = pw])

\* A mutant of RegisterExisting: the lookup never finds a user.
RegisterExistingNever(us, email) == None

\* existing = db["user"].find_one({"email": payload.email})
RegisterExisting(us, email) ==
  FindOne(us, {i \in DOMAIN us : us[i].email = email})

RegCheck(p) ==
  /\ pc[p] = "reg_check"
  /\ IF ~IsNone(RegisterExisting(users, local[p].email))
     THEN /\ Finish(p, Response(400, Detail("Email already registered")))
          /\ UNCHANGED local
     ELSE Goto(p, "reg_insert", [local[p] EXCEPT !.nseen = Len(users)])
  /\ UNCHANGED <<users, movies, listitems, hist>>

\* user = User(name, email, password_hash=password): the stored fields.
UserModel(name, email, password) ==
  [name |-> name, email |-> EmailStr(email), password_hash |-> password,
   tokens |-> <<>>]

RegInsert(p) ==
  /\ pc[p] = "reg_insert"
  /\ LET user == UserModel(local[p].name, local[p].email, local[p].password)
         made == CreateDocument(users, "user", user)
     IN  IF user.email = InvalidEmail
         THEN /\ Finish(p, Response(500, Detail("ValidationError")))
              /\ UNCHANGED <<users, local, hist>>
         ELSE /\ users' = made.docs
              /\ hist' = [hist EXCEPT !.regSeen = Append(@, local[p].nseen)]
              /\ Goto(p, "reg_push", [local[p] EXCEPT !.new_id = made.id])
  /\ UNCHANGED <<movies, listitems>>

\* db["user"].update_one({"_id": ObjectId(user_id)}, {"$push": {"tokens": token}})
RegisterPush(us, user_id, token) == UpdatePush(us, ParseOid(user_id), token)

RegPush(p) ==
  /\ pc[p] = "reg_push"
  /\ users' = RegisterPush(users, local[p].new_id, local[p].email)
  /\ Goto(p, "reg_fetch", local[p])
  /\ UNCHANGED <<movies, listitems, hist>>

RegFetch(p) ==
  /\ pc[p] = "reg_fetch"
  /\ LET oid == ParseOid(local[p].new_id)
         created == FindOne(users, {i \in DOMAIN users : users[i]._id = oid})
     IN  Finish(p, Response(200, [token |-> local[p].email,
                                  user |-> to_str_id(created)]))
  /\ UNCHANGED <<users, movies, listitems, local, hist>>

(***************************************************************************)
(* POST /api/auth/login                                                    *)
(***************************************************************************)
CallLogin(p, emails, passwords) ==
  \E e \in emails, pw \in passwords :
    Call(p, "login_find",
         [LocalInit EXCEPT !.op = "login", !.email = e, !.password = pw])

\* if not user or user.get("password_hash") != payload.password
LoginRejected(user, password) ==
  IF IsNone(user) THEN TRUE ELSE user.password_hash # password

LoginFind(p) ==
  /\ pc[p] = "login_find"
  /\ LET user == FindOne(users, {i \in DOMAIN users :
                                  users[i].email = local[p].email})
     IN  IF LoginRejected(user, local[p].password)
         THEN /\ Finish(p, Response(401, Detail("Invalid credentials")))
              /\ UNCHANGED local
         ELSE Goto(p, "login_update", [local[p] EXCEPT !.user = user])
  /\ UNCHANGED <<users, movies, listitems, hist>>

\* db["user"].update_one({"_id": user["_id"]}, {"$addToSet": {"tokens": token}})
LoginAddToken(us, user, token) == UpdateAddToSet(us, user._id, token)

LoginUpdate(p) ==
  /\ pc[p] = "login_update"
  /\ users' = LoginAddToken(users, local[p].user, local[p].email)
  /\ Finish(p, Response(200, [token |-> local[p].email,
                              user |-> to_str_id(local[p].user)]))
  /\ UNCHANGED <<movies, listitems, local, hist>>

(***************************************************************************)
(* The Movie schema and the catalog handlers.                              *)
(***************************************************************************)
PyInt(n) == [int |-> n]

InRange(v, lo, hi) == IF IsNone(v) THEN TRUE ELSE v.int >= lo /\ v.int <= hi

YearMin == 1900

YearMax == 2100

\* rating, a float, is kept in tenths.
RatingMax == 10

\* Movie(**fields) raises ValidationError outside the declared ranges.
MovieValid(m) ==
  /\ InRange(m.year, YearMin, YearMax)
  /\ InRange(m.rating, 0, RatingMax * 10)
  /\ IF IsNone(m.duration_minutes) THEN TRUE ELSE m.duration_minutes.int >= 1

MovieFields(title, year, genres, rating, minutes, featured) ==
  [title |-> title, year |-> year, genres |-> genres, rating |-> rating,
   duration_minutes |-> minutes, featured |-> featured]

\* The five demo entries of seed_demo_movies, in the listed order.
demos ==
  << MovieFields("The Horizon", PyInt(2023), <<"Sci-Fi", "Adventure">>,
                 PyInt(81), PyInt(112), TRUE),
     MovieFields("Crimson City", PyInt(2022), <<"Thriller">>,
                 PyInt(76), PyInt(98), FALSE),
     MovieFields("Laugh Track", PyInt(2021), <<"Comedy">>,
                 PyInt(72), PyInt(62), FALSE),
     MovieFields("Planet Blue", PyInt(2020), <<"Documentary">>,
                 PyInt(87), PyInt(50), FALSE),
     MovieFields("Shadow School", PyInt(2024), <<"Drama", "Fantasy">>,
                 PyInt(79), PyInt(45), FALSE) >>

\* POST /api/movies
CallCreateMovie(p, payloads) ==
  /\ Len(movies) + InFlight({"movie_insert"}) < MaxMovies
  /\ \E i \in 1..Len(payloads) :
       Call(p, "movie_insert",
            [LocalInit EXCEPT !.op = "create_movie", !.movie = payloads[i]])

MovieInsert(p) ==
  /\ pc[p] = "movie_insert"
  /\ LET made == CreateDocument(movies, "movie", local[p].movie)
     IN  IF ~MovieValid(local[p].movie)
         THEN /\ Finish(p, Response(500, Detail("ValidationError")))
              /\ UNCHANGED <<movies, local, hist>>
         ELSE /\ movies' = made.docs
              /\ hist' = [hist EXCEPT !.created = @ + 1]
              /\ Goto(p, "movie_fetch", [local[p] EXCEPT !.new_id = made.id])
  /\ UNCHANGED <<users, listitems>>

MovieFetch(p) ==
  /\ pc[p] = "movie_fetch"
  /\ LET oid == ParseOid(local[p].new_id)
         created == FindOne(movies, {i \in DOMAIN movies : movies[i]._id = oid})
     IN  Finish(p, Response(200, to_str_id(created)))
  /\ UNCHANGED <<users, movies, listitems, local, hist>>

\* GET /api/movies
CallListMovies(p, genres, flags) ==
  \E i \in 1..Len(genres), j \in 1..Len(flags) :
    Call(p, "movies_find",
         [LocalInit EXCEPT !.op = "list_movies", !.genre = genres[i],
                           !.featured = flags[j]])

\* Python truthiness of an Optional[str].
Truthy(v) == IF IsNone(v) THEN FALSE ELSE v.str # ""

\* A mutant of ListMoviesQuery: featured is tested for truth, as genre is.
ListMoviesQueryTruthy(genre, featured) ==
  [genres |-> IF Truthy(genre) THEN genre ELSE None,
   featured |-> IF IsNone(featured) THEN None
                ELSE IF featured.bool THEN featured ELSE None]

\* q = {}; if genre: q["genres"] = genre;
\* if featured is not None: q["featured"] = featured.  None is an absent key.
ListMoviesQuery(genre, featured) ==
  [genres |-> IF Truthy(genre) THEN genre ELSE None,
   featured |-> IF ~IsNone(featured) THEN featured ELSE None]

\* The store's equality match of q: an array field matches a value it holds.
QueryMatches(q, d) ==
  /\ IF IsNone(q.genres) THEN TRUE ELSE Contains(d.genres, q.genres.str)
  /\ IF IsNone(q.featured) THEN TRUE ELSE d.featured = q.featured.bool

\* get_documents("movie", q)
GetDocuments(coll, q) ==
  Find(coll, {i \in DOMAIN coll : QueryMatches(q, coll[i])})

MapToStrId(docs) == [i \in 1..Len(docs) |-> to_str_id(docs[i])]

MoviesFind(p) ==
  /\ pc[p] = "movies_find"
  /\ LET q == ListMoviesQuery(local[p].genre, local[p].featured)
     IN  Finish(p, Response(200, MapToStrId(GetDocuments(movies, q))))
  /\ UNCHANGED <<users, movies, listitems, local, hist>>

\* GET /api/movies/{movie_id}
CallGetMovie(p, ids) ==
  \E i \in 1..Len(ids) :
    Call(p, "movie_find",
         [LocalInit EXCEPT !.op = "get_movie", !.movie_id = ids[i]])

MovieFind(p) ==
  /\ pc[p] = "movie_find"
  /\ LET id == local[p].movie_id
         m == FindOne(movies, {i \in DOMAIN movies :
                                movies[i]._id = ParseOid(id)})
     IN  IF ~ValidOid(id)
         THEN Finish(p, Response(400, Detail("Invalid id")))
         ELSE IF IsNone(m)
         THEN Finish(p, Response(404, Detail("Movie not found")))
         ELSE Finish(p, Response(200, to_str_id(m)))
  /\ UNCHANGED <<users, movies, listitems, local, hist>>

\* POST /api/seed
CallSeed(p) ==
  Call(p, "seed_count", [LocalInit EXCEPT !.op = "seed"])

\* A mutant of SeedGuard: the catalog is never taken to be seeded.
SeedGuardOff(count) == FALSE

\* if count > 0: return "Catalog already seeded"
SeedGuard(count) == count > 0

SeedCount(p) ==
  /\ pc[p] = "seed_count"
  /\ LET count == Len(movies)
     IN  IF SeedGuard(count)
         THEN /\ Finish(p, Response(200, [message |-> "Catalog already seeded",
                                          count |-> count]))
              /\ UNCHANGED local
         ELSE Goto(p, "seed_insert", local[p])
  /\ UNCHANGED <<users, movies, listitems, hist>>

\* One pass of the loop over demos: create_document, then inserted += 1.
SeedInsert(p) ==
  /\ pc[p] = "seed_insert"
  /\ LET i == local[p].idx + 1
         made == CreateDocument(movies, "movie", demos[i])
         n == IF made.id.str # <<>> THEN local[p].inserted + 1
                                    ELSE local[p].inserted
     IN  /\ movies' = made.docs
         /\ hist' = [hist EXCEPT !.seedIns = @ + 1]
         /\ local' = [local EXCEPT ![p].idx = i, ![p].inserted = n]
         /\ IF i = Len(demos)
            THEN Finish(p, Response(200, [message |-> "Seeded", inserted |-> n]))
            ELSE UNCHANGED <<pc, resp>>
  /\ UNCHANGED <<users, listitems>>

\* create_document raises (the store fails): the exception leaves the
\* handler, and what the loop has inserted stays.
SeedInsertFails(p) ==
  /\ pc[p] = "seed_insert"
  /\ Finish(p, Response(500, Detail("Internal Server Error")))
  /\ hist' = [hist EXCEPT !.failK = local[p].inserted]
  /\ UNCHANGED <<users, movies, listitems, local>>

(***************************************************************************)
(* The watch-list handlers.                                                *)
(***************************************************************************)
\* user = db["user"].find_one({"tokens": token})
UserByToken(us, token) ==
  FindOne(us, {i \in DOMAIN us : Contains(us[i].tokens, token)})

\* POST /api/list/add
CallAddToList(p, tokens, ids) ==
  /\ Len(listitems) + InFlight({"add_user", "add_check", "add_insert"})
       < MaxItems
  /\ \E t \in tokens, i \in 1..Len(ids) :
       Call(p, "add_user",
            [LocalInit EXCEPT !.op = "add_to_list", !.token = t,
                              !.movie_id = ids[i]])

AddUser(p) ==
  /\ pc[p] = "add_user"
  /\ LET user == UserByToken(users, local[p].token)
     IN  IF IsNone(user)
         THEN /\ Finish(p, Response(401, Detail("Invalid token")))
              /\ UNCHANGED local
         ELSE Goto(p, "add_check", [local[p] EXCEPT !.user = user])
  /\ UNCHANGED <<users, movies, listitems, hist>>

\* A mutant of AddExisting: the lookup matches on the user alone.
AddExistingAnyMovie(items, user, movie_id) ==
  FindOne(items, {i \in DOMAIN items : items[i].user_id = StrOid(user._id)})

\* existing = db["listitem"].find_one({"user_id": str(user["_id"]),
\*                                     "movie_id": payload.movie_id})
AddExisting(items, user, movie_id) ==
  FindOne(items, {i \in DOMAIN items :
                    /\ items[i].user_id = StrOid(user._id)
                    /\ items[i].movie_id = movie_id})

AddCheck(p) ==
  /\ pc[p] = "add_check"
  /\ LET existing == AddExisting(listitems, local[p].user, local[p].movie_id)
     IN  IF ~IsNone(existing)
         THEN /\ Finish(p, Response(200, to_str_id(existing)))
              /\ UNCHANGED local
         ELSE Goto(p, "add_insert", [local[p] EXCEPT !.nseen = Len(listitems)])
  /\ UNCHANGED <<users, movies, listitems, hist>>

\* item = ListItem(user_id=str(user["_id"]), movie_id=payload.movie_id)
ListItemModel(user, movie_id) ==
  [user_id |-> StrOid(user._id), movie_id |-> movie_id]

AddInsert(p) ==
  /\ pc[p] = "add_insert"
  /\ LET made == CreateDocument(listitems, "listitem",
                                ListItemModel(local[p].user, local[p].movie_id))
     IN  /\ listitems' = made.docs
         /\ hist' = [hist EXCEPT !.addSeen = Append(@, local[p].nseen)]
         /\ Goto(p, "add_fetch", [local[p] EXCEPT !.new_id = made.id])
  /\ UNCHANGED <<users, movies>>

AddFetch(p) ==
  /\ pc[p] = "add_fetch"
  /\ LET oid == ParseOid(local[p].new_id)
         created == FindOne(listitems, {i \in DOMAIN listitems :
                                        listitems[i]._id = oid})
     IN  Finish(p, Response(200, to_str_id(created)))
  /\ UNCHANGED <<users, movies, listitems, local, hist>>

\* GET /api/list
CallGetList(p, tokens) ==
  \E t \in tokens :
    Call(p, "list_user", [LocalInit EXCEPT !.op = "get_list", !.token = t])

ListUser(p) ==
  /\ pc[p] = "list_user"
  /\ LET user == UserByToken(users, local[p].token)
     IN  IF IsNone(user)
         THEN /\ Finish(p, Response(401, Detail("Invalid token")))
              /\ UNCHANGED local
         ELSE Goto(p, "list_items", [local[p] EXCEPT !.user = user])
  /\ UNCHANGED <<users, movies, listitems, hist>>

\* movie_ids = [ObjectId(i["movie_id"]) for i in items]: InvalidId leaves the
\* handler when one movie_id is not a well-formed identifier.
AllValidOids(items) == \A i \in 1..Len(items) : ValidOid(items[i].movie_id)

ListItems(p) ==
  /\ pc[p] = "list_items"
  /\ LET items == Find(listitems,
                       {i \in DOMAIN listitems :
                          listitems[i].user_id = StrOid(local[p].user._id)})
     IN  IF ~AllValidOids(items)
         THEN /\ Finish(p, Response(500, Detail("InvalidId")))
              /\ UNCHANGED local
         ELSE IF items = <<>>
         THEN /\ Finish(p, Response(200, <<>>))
              /\ UNCHANGED local
         ELSE Goto(p, "list_movies", [local[p] EXCEPT !.items = items])
  /\ UNCHANGED <<users, movies, listitems, hist>>

\* movies = db["movie"].find({"_id": {"$in": movie_ids}})
MoviesIn(ms, items) ==
  Find(ms, {k \in DOMAIN ms : \E i \in 1..Len(items) :
                                 ms[k]._id = ParseOid(items[i].movie_id)})

ListMovies(p) ==
  /\ pc[p] = "list_movies"
  /\ Finish(p, Response(200, MapToStrId(MoviesIn(movies, local[p].items))))
  /\ UNCHANGED <<users, movies, listitems, local, hist>>

(***************************************************************************)
(* Requests the clients send.                                              *)
(***************************************************************************)
EmailAnn == <<"a", "@", "x", ".", "i", "o">>

EmailAnnUpper == <<"a", "@", "X", ".", "i", "o">>

EmailBob == <<"b", "@", "x", ".", "i", "o">>

EmailBad == <<"a">>

AuthEmails == {EmailAnn, EmailAnnUpper, EmailBob, EmailBad}

NotAnId == PyStr(<<"n", "o", "t", "-", "a", "n", "-", "i", "d">>)

\* The identifier the first movie of the catalog gets.
FirstMovieId == StrOid(NewOid("movie", 0))

\* A well-formed identifier that no document ever has.
NoSuchId == StrOid([oid |-> 0])

MovieIds == <<NotAnId, FirstMovieId, NoSuchId>>

Solaris ==
  MovieFields("Solaris", PyInt(1972), <<"Sci-Fi">>, None, None, TRUE)

Untitled == MovieFields("Untitled", None, <<>>, None, None, FALSE)

TooOld == MovieFields("Too Old", PyInt(1500), <<"Drama">>, None, None, FALSE)

MoviePayloads == <<Solaris, Untitled, TooOld>>

GenreParams == <<None, PyStr(""), PyStr("Sci-Fi")>>

FeaturedParams == <<None, PyBool(TRUE), PyBool(FALSE)>>

Tokens == {EmailAnn, EmailBob, EmailBad}

(***************************************************************************)
(* Spec: one client, the whole API, the store never failing.               *)
(***************************************************************************)
Init == InitFor({1})

Next ==
  \/ \E p \in DOMAIN pc : CallRegister(p, {EmailAnn, EmailBob}, {"pw"})
  \/ \E p \in DOMAIN pc : RegCheck(p)
  \/ \E p \in DOMAIN pc : RegInsert(p)
  \/ \E p \in DOMAIN pc : RegPush(p)
  \/ \E p \in DOMAIN pc : RegFetch(p)
  \/ \E p \in DOMAIN pc : CallLogin(p, {EmailAnn, EmailBob}, {"pw"})
  \/ \E p \in DOMAIN pc : LoginFind(p)
  \/ \E p \in DOMAIN pc : LoginUpdate(p)
  \/ \E p \in DOMAIN pc : CallCreateMovie(p, <<Solaris>>)
  \/ \E p \in DOMAIN pc : MovieInsert(p)
  \/ \E p \in DOMAIN pc : MovieFetch(p)
  \/ \E p \in DOMAIN pc : CallListMovies(p, <<None>>, <<None>>)
  \/ \E p \in DOMAIN pc : MoviesFind(p)
  \/ \E p \in DOMAIN pc : CallGetMovie(p, <<FirstMovieId>>)
  \/ \E p \in DOMAIN pc : MovieFind(p)
  \/ \E p \in DOMAIN pc : CallSeed(p)
  \/ \E p \in DOMAIN pc : SeedCount(p)
  \/ \E p \in DOMAIN pc : SeedInsert(p)
  \/ \E p \in DOMAIN pc : CallAddToList(p, Tokens, MovieIds)
  \/ \E p \in DOMAIN pc : AddUser(p)
  \/ \E p \in DOMAIN pc : AddCheck(p)
  \/ \E p \in DOMAIN pc : AddInsert(p)
  \/ \E p \in DOMAIN pc : AddFetch(p)
  \/ \E p \in DOMAIN pc : CallGetList(p, Tokens)
  \/ \E p \in DOMAIN pc : ListUser(p)
  \/ \E p \in DOMAIN pc : ListItems(p)
  \/ \E p \in DOMAIN pc : ListMovies(p)

Spec == Init /\ [][Next]_vars

(***************************************************************************)
(* AuthSpec: one client, register and login.                               *)
(***************************************************************************)
AuthInit == InitFor({1})

AuthNext ==
  \/ \E p \in DOMAIN pc : CallRegister(p, AuthEmails, {"pw"})
  \/ \E p \in DOMAIN pc : RegCheck(p)
  \/ \E p \in DOMAIN pc : RegInsert(p)
  \/ \E p \in DOMAIN pc : RegPush(p)
  \/ \E p \in DOMAIN pc : RegFetch(p)
  \/ \E p \in DOMAIN pc : CallLogin(p, AuthEmails, {"pw", "wrong"})
  \/ \E p \in DOMAIN pc : LoginFind(p)
  \/ \E p \in DOMAIN pc : LoginUpdate(p)

AuthSpec == AuthInit /\ [][AuthNext]_vars

(***************************************************************************)
(* CatalogSpec: one client, the catalog handlers, seeding may fail.        *)
(***************************************************************************)
CatalogInit == InitFor({1})

CatalogNext ==
  \/ \E p \in DOMAIN pc : CallCreateMovie(p, MoviePayloads)
  \/ \E p \in DOMAIN pc : MovieInsert(p)
  \/ \E p \in DOMAIN pc : MovieFetch(p)
  \/ \E p \in DOMAIN pc : CallListMovies(p, GenreParams, FeaturedParams)
  \/ \E p \in DOMAIN pc : MoviesFind(p)
  \/ \E p \in DOMAIN pc : CallGetMovie(p, MovieIds)
  \/ \E p \in DOMAIN pc : MovieFind(p)
  \/ \E p \in DOMAIN pc : CallSeed(p)
  \/ \E p \in DOMAIN pc : SeedCount(p)
  \/ \E p \in DOMAIN pc : SeedInsert(p)
  \/ \E p \in DOMAIN pc : SeedInsertFails(p)

CatalogSpec == CatalogInit /\ [][CatalogNext]_vars

(***************************************************************************)
(* ConcSpec: two clients whose store calls interleave; register, login and *)
(* add_to_list for one email and one movie.                                *)
(***************************************************************************)
ConcInit == InitFor({1, 2})

ConcNext ==
  \/ \E p \in DOMAIN pc : CallRegister(p, {EmailAnn}, {"pw"})
  \/ \E p \in DOMAIN pc : RegCheck(p)
  \/ \E p \in DOMAIN pc : RegInsert(p)
  \/ \E p \in DOMAIN pc : RegPush(p)
  \/ \E p \in DOMAIN pc : RegFetch(p)
  \/ \E p \in DOMAIN pc : CallLogin(p, {EmailAnn}, {"pw"})
  \/ \E p \in DOMAIN pc : LoginFind(p)
  \/ \E p \in DOMAIN pc : LoginUpdate(p)
  \/ \E p \in DOMAIN pc : CallAddToList(p, {EmailAnn}, <<FirstMovieId>>)
  \/ \E p \in DOMAIN pc : AddUser(p)
  \/ \E p \in DOMAIN pc : AddCheck(p)
  \/ \E p \in DOMAIN pc : AddInsert(p)
  \/ \E p \in DOMAIN pc : AddFetch(p)

ConcSpec == ConcInit /\ [][ConcNext]_vars

(***************************************************************************)
(* Properties.                                                             *)
(***************************************************************************)
\* Client p's last call, of handler op, has returned.
Done(p, op) == pc[p] = "idle" /\ local[p].op = op /\ ~IsNone(resp[p])

Ok(p, op) == Done(p, op) /\ resp[p].status = 200

SamePair(d, user_id, movie_id) == d.user_id = user_id /\ d.movie_id = movie_id

RowsOf(user_id, movie_id) ==
  {i \in 1..Len(listitems) : SamePair(listitems[i], user_id, movie_id)}

\* C1: when calls do not overlap, no two list items share a (user_id,
\* movie_id) pair, and every add_to_list that returns leaves exactly one row
\* for its pair and returns that row's identifier, so adding the same pair
\* again returns the first call's identifier and inserts nothing.
C1_IdempotentAdd ==
  /\ \A i, j \in 1..Len(listitems) :
       i # j => ~SamePair(listitems[i], listitems[j].user_id,
                          listitems[j].movie_id)
  /\ \A p \in DOMAIN pc :
       Ok(p, "add_to_list") =>
         LET rows == RowsOf(StrOid(local[p].user._id), local[p].movie_id)
         IN  /\ Cardinality(rows) = 1
             /\ \A i \in rows : resp[p].body.id = StrOid(listitems[i]._id)

\* An add_to_list has returned the row an earlier call had inserted.
C1_SecondAddReturned ==
  \E p \in DOMAIN pc :
    /\ Ok(p, "add_to_list")
    /\ IsNone(local[p].new_id)
    /\ RowsOf(StrOid(local[p].user._id), local[p].movie_id) # {}

\* C2: when calls do not overlap, a register that has passed its existence
\* check found no user with its email, and no two user records have the same
\* email.
C2_RegisterUniqueness ==
  /\ \A p \in DOMAIN pc :
       pc[p] = "reg_insert" =>
         \A i \in 1..Len(users) : users[i].email # local[p].email
  /\ \A i, j \in 1..Len(users) : i # j => users[i].email # users[j].email

\* The rows of the movie collection, in order, without their identifiers,
\* are the entries of demos.
MoviesAreDemos(n) ==
  /\ Len(movies) >= n
  /\ \A i \in 1..n : [k \in DOMAIN demos[i] |-> movies[i][k]] = demos[i]

\* C3: a seed call that returns "Seeded" has inserted the five demo movies
\* in the listed order into an empty catalog and reports inserted = 5; a seed
\* call on a non-empty catalog has inserted nothing and reports the current
\* count; over all seed calls the demo entries are inserted at most once.
C3_SeedIdempotent ==
  /\ hist.seedIns <= Len(demos)
  /\ \A p \in DOMAIN pc :
       Ok(p, "seed") =>
         IF "inserted" \in DOMAIN resp[p].body
         THEN /\ resp[p].body.inserted = Len(demos)
              /\ Len(movies) = Len(demos)
              /\ MoviesAreDemos(Len(demos))
         ELSE /\ resp[p].body.count = Len(movies)
              /\ resp[p].body.count > 0
              /\ local[p].idx = 0

\* A second seed call has returned after a first one seeded the catalog.
C3_SecondSeedReturned ==
  \E p \in DOMAIN pc :
    /\ Ok(p, "seed")
    /\ "count" \in DOMAIN resp[p].body
    /\ hist.seedIns = Len(demos)

\* The movies get_list is to return for a user: the existing movies that the
\* user's list items refer to.
ReferencedMovies(user) ==
  SelectSeq(movies,
            LAMBDA d : \E i \in 1..Len(listitems) :
                         /\ listitems[i].user_id = StrOid(user._id)
                         /\ ValidOid(listitems[i].movie_id)
                         /\ ParseOid(listitems[i].movie_id) = d._id)

\* C4: for every valid token get_list succeeds and returns exactly the
\* existing movies the user's list items refer to; items with a dangling or
\* malformed movie_id are dropped, they do not make get_list fail.
C4_GetListTolerant ==
  \A p \in DOMAIN pc :
    (Done(p, "get_list") /\ ~IsNone(UserByToken(users, local[p].token))) =>
      /\ resp[p].status = 200
      /\ resp[p].body =
           MapToStrId(ReferencedMovies(UserByToken(users, local[p].token)))

\* C5: with interleaved store calls duplicates arise, and only from the
\* race: two user records with the same email, or two list items with the
\* same pair, exist only when the later one's call made its existence check
\* before the earlier one was inserted.
C5_DuplicatesFromRace ==
  /\ \A i, j \in 1..Len(users) :
       (i < j /\ users[i].email = users[j].email) => hist.regSeen[j] < i
  /\ \A i, j \in 1..Len(listitems) :
       (i < j /\ SamePair(listitems[i], listitems[j].user_id,
                          listitems[j].movie_id))
         => hist.addSeen[j] < i

\* Both races have happened: two users with one email and two list items
\* with one pair.
C5_BothDuplicates ==
  /\ \E i, j \in 1..Len(users) : i < j /\ users[i].email = users[j].email
  /\ \E i, j \in 1..Len(listitems) :
       i < j /\ SamePair(listitems[i], listitems[j].user_id,
                         listitems[j].movie_id)

\* login's condition for Unauthorized, as the claim words it.
NoSuchUserOrWrongPassword(email, password) ==
  \/ \A i \in 1..Len(users) : users[i].email # email
  \/ \E i \in 1..Len(users) :
       /\ users[i].email = email
       /\ \A k \in 1..(i - 1) : users[k].email # email
       /\ users[i].password_hash # password

\* C6: a login for an unknown email or with a wrong password answers 401 and
\* changes nothing stored; any other login answers 200 with token = email,
\* and, coming after a completed registration, leaves the token lists as
\* they are.
C6_LoginOutcome ==
  [][\A p \in DOMAIN pc :
       /\ (pc[p] = "login_find"
             /\ NoSuchUserOrWrongPassword(local[p].email, local[p].password))
            => /\ resp'[p].status = 401
               /\ UNCHANGED <<users, movies, listitems>>
       /\ pc[p] = "login_update"
            => /\ resp'[p].status = 200
               /\ resp'[p].body.token = local[p].email
               /\ users' = users]_vars

Filtered(genre, featured, genreGiven) ==
  SelectSeq(movies,
            LAMBDA d : /\ genreGiven => Contains(d.genres, genre.str)
                       /\ ~IsNone(featured) => d.featured = featured.bool)

\* C8 as claimed: list_movies returns exactly the movies satisfying every
\* parameter that was supplied, a parameter being supplied when it is not
\* None.
C8_FilterAsClaimed ==
  \A p \in DOMAIN pc :
    Ok(p, "list_movies") =>
      resp[p].body = MapToStrId(Filtered(local[p].genre, local[p].featured,
                                         ~IsNone(local[p].genre)))

\* C8: list_movies returns exactly the movies satisfying every supplied
\* filter, where an empty genre string counts as no genre filter.
C8_FilterCorrect ==
  \A p \in DOMAIN pc :
    Ok(p, "list_movies") =>
      resp[p].body = MapToStrId(Filtered(local[p].genre, local[p].featured,
                                         Truthy(local[p].genre)))

\* A list_movies with both filters has returned some movies and not all.
C8_BothFiltersReturned ==
  \E p \in DOMAIN pc :
    /\ Ok(p, "list_movies")
    /\ Truthy(local[p].genre)
    /\ ~IsNone(local[p].featured)
    /\ Len(resp[p].body) > 0
    /\ Len(resp[p].body) < Len(movies)

\* A record as the API returns it: no "_id", and "id" a non-empty string.
Normalized(r) ==
  /\ "_id" \notin DOMAIN r
  /\ "id" \in DOMAIN r
  /\ "str" \in DOMAIN r.id
  /\ r.id.str # <<>>

AllNormalized(rs) == \A i \in 1..Len(rs) : Normalized(rs[i])

\* C9: to_str_id of every stored document has no "_id" and a string "id",
\* and so has every record in a response of register, login, create_movie,
\* list_movies, get_movie, add_to_list and get_list.
C9_ResponsesNormalized ==
  /\ \A i \in 1..Len(users) : Normalized(to_str_id(users[i]))
  /\ \A i \in 1..Len(movies) : Normalized(to_str_id(movies[i]))
  /\ \A i \in 1..Len(listitems) : Normalized(to_str_id(listitems[i]))
  /\ \A p \in DOMAIN pc :
       /\ (Ok(p, "register") \/ Ok(p, "login")) => Normalized(resp[p].body.user)
       /\ (Ok(p, "create_movie") \/ Ok(p, "get_movie") \/ Ok(p, "add_to_list"))
            => Normalized(resp[p].body)
       /\ (Ok(p, "list_movies") \/ Ok(p, "get_list"))
            => AllNormalized(resp[p].body)

\* get_list has returned a movie of the user's list.
C9_GetListReturnedMovie ==
  \E p \in DOMAIN pc : Ok(p, "get_list") /\ Len(resp[p].body) > 0

\* C10: in every state, also with interleaved store calls, no token occurs
\* twice in a user's tokens list: the list is empty or holds the user's email
\* once.
C10_NoDuplicateTokens ==
  \A i \in 1..Len(users) :
    /\ \A k, l \in 1..Len(users[i].tokens) :
         k # l => users[i].tokens[k] # users[i].tokens[l]
    /\ users[i].tokens = <<>> \/ users[i].tokens = <<users[i].email>>

====
